---- MODULE Spec2Model ----
(***************************************************************************)
(* The team registry of the bot (src/cogs/team.py): the Team objects, the  *)
(* two maps of TeamCog, the two snapshot files, and the command handlers   *)
(* as coroutines that run atomically between two awaits.                   *)
(***************************************************************************)
EXTENDS Integers, Sequences, FiniteSets, TLC

\* ------------------------------------------------------------------ bounds
NumPlayers == 3
NumNames == 2
NumGuilds == 1
MaxInFlight == 2
MaxCommands == 5

\* ------------------------------------------------------------------ values
Players == 1..NumPlayers          \* ids of human accounts (they issue commands)
BotId == 0                        \* id of an account whose `bot` flag is set
Members == Players \cup {BotId}   \* what a discord.Member argument can be
NoPlayer == -1
NameOf == <<"a", "b", "c", "d">>
Names == {NameOf[k] : k \in 1..NumNames}
NoName == "-"                     \* Python's None where a name is expected
Guilds == 1..NumGuilds
ObjIds == 1..(NumNames + MaxInFlight)
NoTeam == 0                       \* Python's None where a Team is expected
Slots == 1..MaxInFlight
NotifyOutcomes == {"sent", "Forbidden", "HTTPException"}

IsBot(player) == player = BotId

\* x in list
InList(x, list) == \E k \in 1..Len(list) : list[k] = x

\* list.remove(x): drops the first occurrence
ListRemove(list, x) ==
  LET k == CHOOSE j \in 1..Len(list) :
             list[j] = x /\ \A m \in 1..(j - 1) : list[m] # x
  IN  SubSeq(list, 1, k - 1) \o SubSeq(list, k + 1, Len(list))

\* ------------------------------------------------------------------ Team
\* a __post_init__ that never appends the owner
PostInit_skip(owner_id, players) == players

\* a __post_init__ that appends the owner without looking
PostInit_always(owner_id, players) == Append(players, owner_id)

PostInit(owner_id, players) ==
  IF ~InList(owner_id, players) THEN Append(players, owner_id) ELSE players

Team(name, owner_id, guild_id) ==
  [name |-> name, owner_id |-> owner_id, guild_id |-> guild_id,
   players |-> PostInit(owner_id, <<>>), points |-> 0]

\* the value of a heap cell that holds no Team
NoObj ==
  [name |-> NoName, owner_id |-> NoPlayer, guild_id |-> 0,
   players |-> <<>>, points |-> 0]

\* the id compared with something that never equals it
is_owned_by_never(team, player) == FALSE

\* an ownership test every player passes
is_owned_by_always(team, player) == TRUE

is_owned_by(team, player) == team.owner_id = player

\* The three mutators return the exception raised ("none" when the call
\* returns) and the Team as the call leaves it.
\* add_player without the check for a player already in the list
add_player_again(team, player) ==
  IF IsBot(player)
  THEN [raised |-> "CannotAddBotToTeam", team |-> team]
  ELSE [raised |-> "none",
        team |-> [team EXCEPT !.players = Append(@, player)]]

add_player(team, player) ==
  IF InList(player, team.players)
  THEN [raised |-> "PlayerAlreadyOnTheTeam", team |-> team]
  ELSE IF IsBot(player)
  THEN [raised |-> "CannotAddBotToTeam", team |-> team]
  ELSE [raised |-> "none",
        team |-> [team EXCEPT !.players = Append(@, player)]]

\* a remove_player that drops the last of players, whoever was named
remove_player_last(team, player) ==
  IF ~InList(player, team.players)
  THEN [raised |-> "PlayerNotOnTheTeam", team |-> team]
  ELSE IF player = team.owner_id
  THEN [raised |-> "CannotRemoveTeamOwner", team |-> team]
  ELSE [raised |-> "none",
        team |-> [team EXCEPT !.players = SubSeq(@, 1, Len(@) - 1)]]

\* remove_player without the owner check
remove_player_any(team, player) ==
  IF ~InList(player, team.players)
  THEN [raised |-> "PlayerNotOnTheTeam", team |-> team]
  ELSE [raised |-> "none",
        team |-> [team EXCEPT !.players = ListRemove(@, player)]]

remove_player(team, player) ==
  IF ~InList(player, team.players)
  THEN [raised |-> "PlayerNotOnTheTeam", team |-> team]
  ELSE IF player = team.owner_id
  THEN [raised |-> "CannotRemoveTeamOwner", team |-> team]
  ELSE [raised |-> "none",
        team |-> [team EXCEPT !.players = ListRemove(@, player)]]

\* a transfer_ownership that also moves the new owner to the head of players
transfer_ownership_reorder(team, new_owner) ==
  IF ~InList(new_owner, team.players)
  THEN [raised |-> "PlayerNotOnTheTeam", team |-> team]
  ELSE IF is_owned_by(team, new_owner)
  THEN [raised |-> "PlayerAlreadyIsOwner", team |-> team]
  ELSE [raised |-> "none",
        team |-> [team EXCEPT !.owner_id = new_owner,
                              !.players = <<new_owner>> \o ListRemove(@, new_owner)]]

\* transfer_ownership without the check for the current owner
transfer_ownership_again(team, new_owner) ==
  IF ~InList(new_owner, team.players)
  THEN [raised |-> "PlayerNotOnTheTeam", team |-> team]
  ELSE [raised |-> "none", team |-> [team EXCEPT !.owner_id = new_owner]]

\* transfer_ownership without the membership check
transfer_ownership_to_anyone(team, new_owner) ==
  IF is_owned_by(team, new_owner)
  THEN [raised |-> "PlayerAlreadyIsOwner", team |-> team]
  ELSE [raised |-> "none", team |-> [team EXCEPT !.owner_id = new_owner]]

transfer_ownership(team, new_owner) ==
  IF ~InList(new_owner, team.players)
  THEN [raised |-> "PlayerNotOnTheTeam", team |-> team]
  ELSE IF is_owned_by(team, new_owner)
  THEN [raised |-> "PlayerAlreadyIsOwner", team |-> team]
  ELSE [raised |-> "none", team |-> [team EXCEPT !.owner_id = new_owner]]

\* ------------------------------------------------------------------ models.Team
\* The Team of src/models/team.py: its methods take player ids, add_player
\* has no bot check and remove_player has no owner check.
models_add_player(team, player_id) ==
  IF InList(player_id, team.players)
  THEN [raised |-> "PlayerAlreadyOnTheTeam", team |-> team]
  ELSE [raised |-> "none",
        team |-> [team EXCEPT !.players = Append(@, player_id)]]

models_remove_player(team, player_id) ==
  IF ~InList(player_id, team.players)
  THEN [raised |-> "PlayerNotOnTheTeam", team |-> team]
  ELSE [raised |-> "none",
        team |-> [team EXCEPT !.players = ListRemove(@, player_id)]]

models_transfer_ownership(team, new_owner_id) ==
  IF ~InList(new_owner_id, team.players)
  THEN [raised |-> "PlayerNotOnTheTeam", team |-> team]
  ELSE IF team.owner_id = new_owner_id
  THEN [raised |-> "PlayerAlreadyIsOwner", team |-> team]
  ELSE [raised |-> "none", team |-> [team EXCEPT !.owner_id = new_owner_id]]

\* __post_init__: self.add_player(self.owner_id), on the default empty list
models_Team(name, owner_id, guild_id) ==
  models_add_player([name |-> name, owner_id |-> owner_id,
                     guild_id |-> guild_id, players |-> <<>>, points |-> 0],
                    owner_id).team

\* the two Team classes of the repository
Impls == {"cogs", "models"}
NewTeam(impl, name, owner_id, guild_id) ==
  IF impl = "cogs" THEN Team(name, owner_id, guild_id)
  ELSE models_Team(name, owner_id, guild_id)
Call(impl, op, team, player) ==
  IF impl = "cogs"
  THEN CASE op = "add_player" -> add_player(team, player)
         [] op = "remove_player" -> remove_player(team, player)
         [] op = "transfer_ownership" -> transfer_ownership(team, player)
  ELSE CASE op = "add_player" -> models_add_player(team, player)
         [] op = "remove_player" -> models_remove_player(team, player)
         [] op = "transfer_ownership" -> models_transfer_ownership(team, player)

\* ------------------------------------------------------------------ state
VARIABLES
  heap,                  \* the Team objects, by identity
  teams,                 \* TeamCog._teams: name -> Team (NoTeam: no such key)
  player_id_to_team_name,\* TeamCog._player_id_to_team_name (NoName: no key)
  teams_file,            \* what teams.json holds
  players_file,          \* what players.json holds
  tasks,                 \* the handlers suspended at `await self.notify(...)`
  last,                  \* the last step taken: command, inputs, outcome
  issued,                \* how many commands were issued so far
  pre_invite,            \* the state a successful invite started from
  unit                   \* one Team object whose methods are called directly

vars == <<heap, teams, player_id_to_team_name, teams_file, players_file,
          tasks, last, issued, pre_invite, unit>>

\* no Team object is exercised on its own
NoUnit == [impl |-> "none", op |-> "none", arg |-> NoPlayer, raised |-> "none",
           before |-> NoObj, team |-> NoObj]

Idle == [cmd |-> "idle", actor |-> NoPlayer, target |-> NoPlayer,
         team |-> NoTeam, i |-> 0]

\* what `last` records of a step: the command, who issued it, its Member
\* argument, create's team_name and guild, the reply or the exception that
\* ends the step ("await_notify": suspended), and the handler's Team as the
\* step leaves it
Event(cmd, actor, target, name, outcome, team) ==
  [cmd |-> cmd, actor |-> actor, target |-> target, name |-> name,
   guild |-> 0, outcome |-> outcome, team |-> team]

\* json.dump(self._teams, default=vars): each Team as the dict of its fields
DumpTeams(h, tm) ==
  [n \in Names |-> IF tm[n] = NoTeam THEN NoObj ELSE h[tm[n]]]

\* json.dump(self._player_id_to_team_name): JSON object keys are strings
DumpPlayers(idx) ==
  {<<ToString(p), idx[p]>> : p \in {q \in Players : idx[q] # NoName}}

\* every registered team's players list, by team name
PlayersOf(h, tm) ==
  [n \in Names |-> IF tm[n] = NoTeam THEN <<>> ELSE h[tm[n]].players]

\* History of an invite: what the players lists and the index were when a
\* successful /team invite began. It is kept while the next steps are the
\* /team remove of the same player by the same owner and that handler's
\* reply, and dropped by every other step.
NoSnap == [owner |-> NoPlayer]
Snapshot(ev) ==
  IF ev.cmd = "invite" /\ ev.outcome = "invited_player"
  THEN [owner |-> ev.actor, player |-> ev.target,
        players |-> PlayersOf(heap, teams), idx |-> player_id_to_team_name]
  ELSE IF /\ pre_invite # NoSnap
          /\ ev.cmd = "remove"
          /\ ev.actor = pre_invite.owner /\ ev.target = pre_invite.player
          /\ \/ last.cmd = "invite" /\ ev.outcome = "await_notify"
             \/ /\ last.cmd = "remove" /\ last.outcome = "await_notify"
                /\ ev.outcome = "team_removed_player"
  THEN pre_invite
  ELSE NoSnap

\* Team objects no dict entry and no suspended handler refers to are gone
Collect(h, tm, tk) ==
  [o \in ObjIds |->
     IF (\E n \in Names : tm[n] = o) \/ (\E s \in Slots : tk[s].team = o)
     THEN h[o] ELSE NoObj]

Init ==
  /\ heap = [o \in ObjIds |-> NoObj]
  /\ teams = [n \in Names |-> NoTeam]
  /\ player_id_to_team_name = [p \in Players |-> NoName]
  /\ teams_file = [n \in Names |-> NoObj]
  /\ players_file = {}
  /\ tasks = [s \in Slots |-> Idle]
  /\ last = Event("init", NoPlayer, NoPlayer, NoName, "none", NoObj)
  /\ issued = 0
  /\ pre_invite = NoSnap
  /\ unit = NoUnit

\* ------------------------------------------------------------------ lookups
\* a lookup that finds no team for anyone
get_player_team_none(tm, idx, player) == NoTeam

get_player_team(tm, idx, player) ==
  IF idx[player] = NoName THEN NoTeam ELSE tm[idx[player]]

\* get_team_owned_by_player without the ownership check
get_team_owned_by_player_any(h, tm, idx, player) ==
  LET player_team == get_player_team(tm, idx, player) IN
  IF player_team = NoTeam
  THEN [raised |-> "PlayerNotOnATeam", team |-> NoTeam]
  ELSE [raised |-> "none", team |-> player_team]

\* the Team, or the exception raised
get_team_owned_by_player(h, tm, idx, player) ==
  LET player_team == get_player_team(tm, idx, player) IN
  IF player_team = NoTeam
  THEN [raised |-> "PlayerNotOnATeam", team |-> NoTeam]
  ELSE IF ~is_owned_by(h[player_team], player)
  THEN [raised |-> "PlayerNotTeamOwner", team |-> player_team]
  ELSE [raised |-> "none", team |-> player_team]

\* every assignment of one step, with save_data() when `save` is set
Commit(h, tm, idx, tk, save, ev) ==
  /\ heap' = Collect(h, tm, tk)
  /\ teams' = tm
  /\ player_id_to_team_name' = idx
  /\ tasks' = tk
  /\ teams_file' = IF save THEN DumpTeams(h, tm) ELSE teams_file
  /\ players_file' = IF save THEN DumpPlayers(idx) ELSE players_file
  /\ last' = ev
  /\ pre_invite' = Snapshot(ev)
  /\ UNCHANGED unit

\* a step that only replies (or raises) and changes nothing
Reply(ev) ==
  Commit(heap, teams, player_id_to_team_name, tasks, FALSE, ev)

FreeSlots == {s \in Slots : tasks[s].cmd = "idle"}
FreeObjs ==
  {o \in ObjIds : (\A n \in Names : teams[n] # o)
                  /\ (\A s \in Slots : tasks[s].team # o)}
Lowest(S) == CHOOSE x \in S : \A y \in S : x <= y

\* ------------------------------------------------------------------ /team create
\* a name check that never finds the name
name_taken_never(tm, team_name) == FALSE

\* team_name in self._teams
name_taken(tm, team_name) == tm[team_name] # NoTeam

team_create(owner, team_name, guild_id) ==
  LET current_team == get_player_team(teams, player_id_to_team_name, owner)
      o == Lowest(FreeObjs)
      new_team == Team(team_name, owner, guild_id)
  IN
  IF current_team # NoTeam
  THEN Reply(Event("create", owner, NoPlayer, team_name,
                   "already_on_a_team", heap[current_team]))
  ELSE IF name_taken(teams, team_name)
  THEN Reply(Event("create", owner, NoPlayer, team_name,
                   "team_already_exists", NoObj))
  ELSE Commit([heap EXCEPT ![o] = new_team],
              [teams EXCEPT ![team_name] = o],
              [player_id_to_team_name EXCEPT ![owner] = team_name],
              tasks, TRUE,
              [Event("create", owner, NoPlayer, team_name, "team_created",
                     new_team) EXCEPT !.guild = guild_id])

\* where a handler that suspends is kept: the first free slot, 0 when all
\* MaxInFlight slots are taken (the step is then not taken)
NewSlot == IF FreeSlots = {} THEN 0 ELSE Lowest(FreeSlots)
SetTask(tk, slot, task) == IF slot \in Slots THEN [tk EXCEPT ![slot] = task] ELSE tk

\* ------------------------------------------------------------------ /team invite
team_invite(owner, player) ==
  LET got == get_team_owned_by_player(heap, teams, player_id_to_team_name, owner)
      owner_team == got.team
      added == add_player(heap[owner_team], player)
  IN
  IF got.raised = "PlayerNotOnATeam"
  THEN Reply(Event("invite", owner, player, NoName, "player_not_on_a_team", NoObj))
  ELSE IF got.raised = "PlayerNotTeamOwner"
  THEN Reply(Event("invite", owner, player, NoName, "player_not_team_owner",
                   heap[owner_team]))
  ELSE IF added.raised = "PlayerAlreadyOnTheTeam"
  THEN Reply(Event("invite", owner, player, NoName,
                   "player_already_on_the_team", heap[owner_team]))
  ELSE IF added.raised = "CannotAddBotToTeam"
  THEN Reply(Event("invite", owner, player, NoName,
                   "trying_to_add_bot_to_team", heap[owner_team]))
  ELSE Commit([heap EXCEPT ![owner_team] = added.team], teams,
              [player_id_to_team_name EXCEPT ![player] = added.team.name],
              tasks, TRUE,
              Event("invite", owner, player, NoName, "invited_player",
                    added.team))

\* ------------------------------------------------------------------ /team remove
team_remove(owner, player) ==
  LET got == get_team_owned_by_player(heap, teams, player_id_to_team_name, owner)
      owner_team == got.team
      removed == remove_player(heap[owner_team], player)
      heap2 == [heap EXCEPT ![owner_team] = removed.team]
  IN
  IF got.raised = "PlayerNotOnATeam"
  THEN Reply(Event("remove", owner, player, NoName, "player_not_on_a_team", NoObj))
  ELSE IF got.raised = "PlayerNotTeamOwner"
  THEN Reply(Event("remove", owner, player, NoName, "player_not_team_owner",
                   heap[owner_team]))
  ELSE IF removed.raised = "PlayerNotOnTheTeam"
  THEN Reply(Event("remove", owner, player, NoName, "player_not_on_the_team",
                   heap[owner_team]))
  ELSE IF removed.raised = "CannotRemoveTeamOwner"
  THEN Reply(Event("remove", owner, player, NoName,
                   "cant_remove_owner_from_team", heap[owner_team]))
  ELSE IF player_id_to_team_name[player] = NoName
  THEN \* dict.pop of a missing key, after the list was changed
       Commit(heap2, teams, player_id_to_team_name, tasks, FALSE,
              Event("remove", owner, player, NoName, "KeyError", removed.team))
  ELSE \* suspended at await self.notify(player, ...)
       /\ NewSlot \in Slots
       /\ Commit(heap2, teams,
                 [player_id_to_team_name EXCEPT ![player] = NoName],
                 SetTask(tasks, NewSlot,
                         [cmd |-> "remove", actor |-> owner, target |-> player,
                          team |-> NoTeam, i |-> 0]),
                 FALSE,
                 Event("remove", owner, player, NoName, "await_notify",
                       removed.team))

resume_remove(s, sent) ==
  /\ tasks[s].cmd = "remove"
  /\ IF sent = "HTTPException"
     THEN Commit(heap, teams, player_id_to_team_name, SetTask(tasks, s, Idle),
                 FALSE,
                 Event("remove", tasks[s].actor, tasks[s].target, NoName,
                       "HTTPException", NoObj))
     ELSE Commit(heap, teams, player_id_to_team_name, SetTask(tasks, s, Idle),
                 TRUE,
                 Event("remove", tasks[s].actor, tasks[s].target, NoName,
                       "team_removed_player", NoObj))

\* ------------------------------------------------------------------ /team transfer_ownership
team_transfer_ownership(owner, new_owner) ==
  LET got == get_team_owned_by_player(heap, teams, player_id_to_team_name, owner)
      owner_team == got.team
      moved == transfer_ownership(heap[owner_team], new_owner)
  IN
  IF got.raised = "PlayerNotOnATeam"
  THEN Reply(Event("transfer", owner, new_owner, NoName,
                   "player_not_on_a_team", NoObj))
  ELSE IF got.raised = "PlayerNotTeamOwner"
  THEN Reply(Event("transfer", owner, new_owner, NoName,
                   "player_not_team_owner", heap[owner_team]))
  ELSE IF moved.raised = "PlayerNotOnTheTeam"
  THEN Reply(Event("transfer", owner, new_owner, NoName,
                   "player_not_on_the_team", heap[owner_team]))
  ELSE IF moved.raised = "PlayerAlreadyIsOwner"
  THEN Reply(Event("transfer", owner, new_owner, NoName,
                   "player_already_is_owner", heap[owner_team]))
  ELSE \* suspended at await self.notify(new_owner, ...)
       /\ NewSlot \in Slots
       /\ Commit([heap EXCEPT ![owner_team] = moved.team], teams,
                 player_id_to_team_name,
                 SetTask(tasks, NewSlot,
                         [cmd |-> "transfer", actor |-> owner,
                          target |-> new_owner, team |-> NoTeam, i |-> 0]),
                 FALSE,
                 Event("transfer", owner, new_owner, NoName, "await_notify",
                       moved.team))

resume_transfer(s, sent) ==
  /\ tasks[s].cmd = "transfer"
  /\ IF sent = "HTTPException"
     THEN Commit(heap, teams, player_id_to_team_name, SetTask(tasks, s, Idle),
                 FALSE,
                 Event("transfer", tasks[s].actor, tasks[s].target, NoName,
                       "HTTPException", NoObj))
     ELSE Commit(heap, teams, player_id_to_team_name, SetTask(tasks, s, Idle),
                 TRUE,
                 Event("transfer", tasks[s].actor, tasks[s].target, NoName,
                       "ownership_transferred_successfully", NoObj))

\* ------------------------------------------------------------------ /team disband
\* One run of the loop `for team_player in self.get_team_players(owner_team)`
\* from list position i up to the next await. get_team_players is a lazy
\* filter over a lazy map over the live list owner_team.players, so the loop
\* is a list iterator at position i; `present` are the ids for which
\* team_guild.get_member returns a member during this run.
\* status: "notify" (suspended at await self.notify(who, ...)), "KeyError"
\* (pop of a missing key), "end" (the iterator is exhausted).
RECURSIVE DisbandLoop(_, _, _, _, _)
DisbandLoop(players, owner_id, idx, i, present) ==
  IF i >= Len(players)
  THEN [status |-> "end", idx |-> idx, i |-> i, who |-> NoPlayer]
  ELSE LET team_player == players[i + 1] IN
       IF team_player \notin present
       THEN DisbandLoop(players, owner_id, idx, i + 1, present)
       ELSE IF idx[team_player] = NoName
       THEN [status |-> "KeyError", idx |-> idx, i |-> i + 1, who |-> team_player]
       ELSE IF team_player = owner_id
       THEN DisbandLoop(players, owner_id, [idx EXCEPT ![team_player] = NoName],
                        i + 1, present)
       ELSE [status |-> "notify", idx |-> [idx EXCEPT ![team_player] = NoName],
             i |-> i + 1, who |-> team_player]

\* lines 451-466 from iterator position i, for the handler kept in `slot`
disband_from(slot, owner, owner_team, i, present) ==
  LET team == heap[owner_team]
      run == DisbandLoop(team.players, team.owner_id, player_id_to_team_name,
                         i, present)
  IN
  IF run.status = "notify"
  THEN /\ slot \in Slots
       /\ Commit(heap, teams, run.idx,
                 SetTask(tasks, slot,
                         [cmd |-> "disband", actor |-> owner,
                          target |-> run.who, team |-> owner_team,
                          i |-> run.i]),
                 FALSE,
                 Event("disband", owner, run.who, NoName, "await_notify", team))
  ELSE IF run.status = "KeyError" \/ teams[team.name] = NoTeam
  THEN Commit(heap, teams, run.idx, SetTask(tasks, slot, Idle), FALSE,
              Event("disband", owner, run.who, NoName, "KeyError", team))
  ELSE Commit(heap, [teams EXCEPT ![team.name] = NoTeam], run.idx,
              SetTask(tasks, slot, Idle), TRUE,
              Event("disband", owner, NoPlayer, NoName,
                    "team_disbanded_successfully", team))

team_disband(owner, found, present) ==
  LET got == get_team_owned_by_player(heap, teams, player_id_to_team_name, owner)
  IN
  IF got.raised = "PlayerNotOnATeam"
  THEN Reply(Event("disband", owner, NoPlayer, NoName, "player_not_on_a_team",
                   NoObj))
  ELSE IF got.raised = "PlayerNotTeamOwner"
  THEN Reply(Event("disband", owner, NoPlayer, NoName, "player_not_team_owner",
                   heap[got.team]))
  ELSE IF ~found
  THEN \* self.bot.get_guild(team.guild_id) is None
       Reply(Event("disband", owner, NoPlayer, NoName, "GuildNotFoundError",
                   heap[got.team]))
  ELSE disband_from(NewSlot, owner, got.team, 0, present)

resume_disband(s, sent, present) ==
  /\ tasks[s].cmd = "disband"
  /\ IF sent = "HTTPException"
     THEN Commit(heap, teams, player_id_to_team_name, SetTask(tasks, s, Idle),
                 FALSE,
                 Event("disband", tasks[s].actor, tasks[s].target, NoName,
                       "HTTPException", heap[tasks[s].team]))
     ELSE disband_from(s, tasks[s].actor, tasks[s].team, tasks[s].i, present)

\* ------------------------------------------------------------------ /team leave
\* lines 652-660: remove_player, the index pop, save_data and the reply
leave_finish(h, tm, tk, player, new_owner, current_team) ==
  LET removed == remove_player(h[current_team], player)
      h2 == [h EXCEPT ![current_team] = removed.team]
  IN
  IF removed.raised = "PlayerNotOnTheTeam"
  THEN Commit(h, tm, player_id_to_team_name, tk, FALSE,
              Event("leave", player, new_owner, NoName, "PlayerNotOnTheTeam",
                    h[current_team]))
  ELSE IF player_id_to_team_name[player] = NoName
  THEN Commit(h2, tm, player_id_to_team_name, tk, FALSE,
              Event("leave", player, new_owner, NoName, "KeyError",
                    removed.team))
  ELSE Commit(h2, tm, [player_id_to_team_name EXCEPT ![player] = NoName], tk,
              TRUE,
              Event("leave", player, new_owner, NoName,
                    "player_left_team_successfully", removed.team))

\* [team_player for team_player in team_players
\*  if team_player.id != current_team.owner_id], as the set random.choice
\* draws from
other_players(team, present) ==
  {q \in present : InList(q, team.players) /\ q # team.owner_id}

team_leave(player, found, present) ==
  LET current_team == get_player_team(teams, player_id_to_team_name, player)
      team == heap[current_team]
      others == other_players(team, present)
  IN
  IF current_team = NoTeam
  THEN Reply(Event("leave", player, NoPlayer, NoName, "player_not_on_a_team",
                   NoObj))
  ELSE IF ~is_owned_by(team, player)
  THEN leave_finish(heap, teams, tasks, player, NoPlayer, current_team)
  ELSE IF ~found
  THEN Reply(Event("leave", player, NoPlayer, NoName, "GuildNotFoundError",
                   team))
  ELSE IF others # {}
  THEN \* suspended at await self.notify(new_owner, ...)
       \E new_owner \in others :
         LET moved == transfer_ownership(team, new_owner).team IN
         /\ NewSlot \in Slots
         /\ Commit([heap EXCEPT ![current_team] = moved], teams,
                   player_id_to_team_name,
                   SetTask(tasks, NewSlot,
                           [cmd |-> "leave", actor |-> player,
                            target |-> new_owner, team |-> current_team,
                            i |-> 0]),
                   FALSE,
                   Event("leave", player, new_owner, NoName, "await_notify",
                         moved))
  ELSE leave_finish(heap, [teams EXCEPT ![team.name] = NoTeam], tasks, player,
                    NoPlayer, current_team)

resume_leave(s, sent) ==
  /\ tasks[s].cmd = "leave"
  /\ IF sent = "HTTPException"
     THEN Commit(heap, teams, player_id_to_team_name, SetTask(tasks, s, Idle),
                 FALSE,
                 Event("leave", tasks[s].actor, tasks[s].target, NoName,
                       "HTTPException", heap[tasks[s].team]))
     ELSE leave_finish(heap, teams, SetTask(tasks, s, Idle), tasks[s].actor,
                       tasks[s].target, tasks[s].team)

\* ------------------------------------------------------------------ load_data
\* Team.from_dict: cls(**data), and __post_init__ on the fields given
from_dict(data) ==
  [name |-> data.name, owner_id |-> data.owner_id, guild_id |-> data.guild_id,
   players |-> PostInit(data.owner_id, data.players), points |-> data.points]

\* int(player_id) of a key of players.json
ParseInt(key) == CHOOSE p \in Members : ToString(p) = key

\* the Team objects load_data builds: one per key of teams.json
NameIndex(n) == CHOOSE k \in 1..NumNames : NameOf[k] = n
LoadHeap(file) ==
  [o \in ObjIds |->
     IF o <= NumNames /\ file[NameOf[o]] # NoObj
     THEN from_dict(file[NameOf[o]]) ELSE NoObj]
LoadTeams(file) ==
  [n \in Names |-> IF file[n] # NoObj THEN NameIndex(n) ELSE NoTeam]

\* {int(player_id): team_name for player_id, team_name in data.items()}
LoadPlayers(file) ==
  [p \in Players |->
     IF \E e \in file : ParseInt(e[1]) = p
     THEN (CHOOSE e \in file : ParseInt(e[1]) = p)[2] ELSE NoName]

\* The process is started again: TeamCog.__init__ and load_data read the two
\* files as save_data last wrote them; the suspended handlers are gone.
load_data ==
  /\ heap' = LoadHeap(teams_file)
  /\ teams' = LoadTeams(teams_file)
  /\ player_id_to_team_name' = LoadPlayers(players_file)
  /\ tasks' = [s \in Slots |-> Idle]
  /\ UNCHANGED <<teams_file, players_file>>
  /\ last' = Event("load", NoPlayer, NoPlayer, NoName, "loaded", NoObj)
  /\ pre_invite' = NoSnap
  /\ UNCHANGED unit

\* What team_guild.get_member answers during one run of a handler: the ids it
\* finds a member for. Members leave and join the guild at any time; the
\* issuer of a command is a member when the command arrives. Nothing is asked
\* when the guild is not found or the run ends before the lookup.
Present(asked, issuer) ==
  IF asked THEN {S \in SUBSET Players : issuer \in S \/ issuer = NoPlayer}
  ELSE {{}}

\* a command arrives (at most MaxCommands of them), a suspended one goes on
Issue == issued < MaxCommands /\ issued' = issued + 1
Continue == UNCHANGED issued

Next ==
  \/ \E owner \in Players, team_name \in Names, guild_id \in Guilds :
       Issue /\ team_create(owner, team_name, guild_id)
  \/ \E owner \in Players, found \in BOOLEAN :
       \E present \in Present(found, owner) :
         Issue /\ team_disband(owner, found, present)
  \/ \E owner \in Players, new_owner \in Members :
       Issue /\ team_transfer_ownership(owner, new_owner)
  \/ \E owner \in Players, player \in Members :
       Issue /\ team_invite(owner, player)
  \/ \E owner \in Players, player \in Members :
       Issue /\ team_remove(owner, player)
  \/ \E player \in Players, found \in BOOLEAN :
       \E present \in Present(found, player) :
         Issue /\ team_leave(player, found, present)
  \/ \E s \in Slots, sent \in NotifyOutcomes :
       \E present \in Present(sent # "HTTPException", NoPlayer) :
         Continue /\ resume_disband(s, sent, present)
  \/ \E s \in Slots, sent \in NotifyOutcomes :
       Continue /\ resume_transfer(s, sent)
  \/ \E s \in Slots, sent \in NotifyOutcomes :
       Continue /\ resume_remove(s, sent)
  \/ \E s \in Slots, sent \in NotifyOutcomes :
       Continue /\ resume_leave(s, sent)
  \/ Continue /\ load_data

Spec == Init /\ [][Next]_vars

\* ------------------------------------------------------------------ a Team alone
\* One Team of either class, constructed as team_create constructs it, and
\* its three mutators called with any player, in any order. No TeamCog is
\* involved: the registry stays as constructed.
cog == <<heap, teams, player_id_to_team_name, teams_file, players_file,
         tasks, last, issued, pre_invite>>
InitTeam ==
  /\ heap = [o \in ObjIds |-> NoObj]
  /\ teams = [n \in Names |-> NoTeam]
  /\ player_id_to_team_name = [p \in Players |-> NoName]
  /\ teams_file = [n \in Names |-> NoObj]
  /\ players_file = {}
  /\ tasks = [s \in Slots |-> Idle]
  /\ last = Event("init", NoPlayer, NoPlayer, NoName, "none", NoObj)
  /\ issued = 0
  /\ pre_invite = NoSnap
  /\ \E impl \in Impls, name \in Names, owner_id \in Players, guild_id \in Guilds :
       unit = [impl |-> impl, op |-> "init", arg |-> owner_id, raised |-> "none",
               before |-> NoObj,
               team |-> NewTeam(impl, name, owner_id, guild_id)]

\* the Team object after one call: what was called, with whom, what it
\* raised, and the Team before and after
Called(op, player) ==
  LET did == Call(unit.impl, op, unit.team, player) IN
  [impl |-> unit.impl, op |-> op, arg |-> player,
   raised |-> did.raised, before |-> unit.team, team |-> did.team]

call_add_player(player) ==
  unit' = Called("add_player", player) /\ UNCHANGED cog
call_remove_player(player) ==
  unit' = Called("remove_player", player) /\ UNCHANGED cog
call_transfer_ownership(new_owner) ==
  unit' = Called("transfer_ownership", new_owner) /\ UNCHANGED cog

NextTeam ==
  \/ \E player \in Members : call_add_player(player)
  \/ \E player \in Members : call_remove_player(player)
  \/ \E new_owner \in Members : call_transfer_ownership(new_owner)

SpecTeam == InitTeam /\ [][NextTeam]_vars

\* ------------------------------------------------------------------ claims
Registered == {n \in Names : teams[n] # NoTeam}
TeamNamed(n) == heap[teams[n]]
\* the registered teams whose players list holds p
TeamsOf(p) == {n \in Registered : InList(p, TeamNamed(n).players)}
Indexed(p) == player_id_to_team_name[p] # NoName
\* no handler is suspended
Quiet == \A s \in Slots : tasks[s].cmd = "idle"
\* the step issues a command (it is not the continuation of a suspended one)
Issued == issued' # issued
Left == last.cmd = "leave" /\ last.outcome = "player_left_team_successfully"

\* C1: whenever no command is in progress, a player id is a key of the index
\* iff it is in the players list of exactly one registered team, and the
\* index value is that team's name.
C1_IndexConsistency ==
  Quiet =>
    \A p \in Players :
      /\ Indexed(p) <=> Cardinality(TeamsOf(p)) = 1
      /\ Indexed(p) => TeamsOf(p) = {player_id_to_team_name[p]}

\* C2: no player id is in the players lists of two distinct registered teams.
C2_OneTeamPerPlayer == \A p \in Players : Cardinality(TeamsOf(p)) <= 1

\* C3: commands are atomic: no command is issued (and so reads the two maps)
\* while a disband is suspended between its index pops and its pop of the
\* team, or a leave between its transfer of ownership and its removal of the
\* leaving player.
PartlyApplied == \E s \in Slots : tasks[s].cmd \in {"disband", "leave"}
C3_Atomic == [][PartlyApplied => ~Issued]_vars

\* C4: the owner of every registered team is in its players list.
C4_OwnerInPlayers ==
  \A n \in Registered : InList(TeamNamed(n).owner_id, TeamNamed(n).players)

\* an owner has left, a successor owns the team, and the team is registered
C4_Witness ==
  /\ Left /\ last.target # NoPlayer
  /\ last.team.name \in Registered
  /\ TeamNamed(last.team.name).owner_id = last.target
  /\ Len(TeamNamed(last.team.name).players) >= 1

\* C5: after a successful disband the team is not registered, no index entry
\* names it, and no id of its players list is a key of the index.
C5_DisbandClearsIndex ==
  (last.cmd = "disband" /\ last.outcome = "team_disbanded_successfully") =>
    /\ last.team.name \notin Registered
    /\ \A p \in Players :
         /\ player_id_to_team_name[p] # last.team.name
         /\ InList(p, last.team.players) => ~Indexed(p)

\* C6: when the owner of a team with at least one other member leaves, the
\* team stays registered, its owner is a member other than the leaver, and the
\* leaver is neither in its players nor a key of the index.
\* The leave is either a command that runs to its reply in one step, or the
\* continuation of a leave that was suspended at the successor's notification.
OwnerWithOthersLeaves ==
  /\ last'.cmd = "leave"
  /\ \/ ~Issued
     \/ LET t == get_player_team(teams, player_id_to_team_name, last'.actor) IN
        /\ t # NoTeam
        /\ heap[t].owner_id = last'.actor
        /\ Len(heap[t].players) >= 2
LeaverSucceeded ==
  /\ last.team.name \in Registered
  /\ TeamNamed(last.team.name) = last.team
  /\ last.team.owner_id # last.actor
  /\ InList(last.team.owner_id, last.team.players)
  /\ ~InList(last.actor, last.team.players)
  /\ ~Indexed(last.actor)
C6_OwnerLeaveSuccession ==
  [][(OwnerWithOthersLeaves /\ Left') => LeaverSucceeded']_vars

\* C7: when the owner of an owner-only team leaves, the team is deleted from
\* the teams map, the leaver's index entry is removed, and get_player_team of
\* the leaver is None.
OwnerOnlyLeaves ==
  /\ Issued /\ last'.cmd = "leave"
  /\ LET t == get_player_team(teams, player_id_to_team_name, last'.actor) IN
     t # NoTeam /\ heap[t].players = <<last'.actor>>
C7_OwnerOnlyLeaveDeletes ==
  [][(OwnerOnlyLeaves /\ Left') =>
       /\ teams'[player_id_to_team_name[last'.actor]] = NoTeam
       /\ player_id_to_team_name'[last'.actor] = NoName
       /\ get_player_team(teams', player_id_to_team_name', last'.actor) = NoTeam
    ]_vars

\* the owner of an owner-only team has left
C7_Witness ==
  /\ Left /\ last.target = NoPlayer
  /\ last.team.players = <<last.actor>>
  /\ last.team.name \notin Registered
  /\ ~Indexed(last.actor)

\* C8: create by a player who is in the players list of a registered team
\* fails and leaves the teams map and the index unchanged.
C8_CreateFailsOnMember ==
  [][(Issued /\ last'.cmd = "create" /\ TeamsOf(last'.actor) # {}) =>
       /\ last'.outcome # "team_created"
       /\ teams' = teams
       /\ player_id_to_team_name' = player_id_to_team_name
    ]_vars

\* C9 as stated: create with a registered name fails with the
\* team-already-exists outcome and leaves both maps unchanged.
C9_Original ==
  [][(Issued /\ last'.cmd = "create" /\ last'.name \in Registered) =>
       /\ last'.outcome = "team_already_exists"
       /\ teams' = teams
       /\ player_id_to_team_name' = player_id_to_team_name
    ]_vars

\* C9, amended: create with a registered name fails, with the
\* already-on-a-team outcome when the issuer's index entry names a registered
\* team and with the team-already-exists outcome otherwise, and leaves the
\* teams map, the registered Team objects and the index unchanged.
C9_Amended ==
  [][(Issued /\ last'.cmd = "create" /\ last'.name \in Registered) =>
       /\ last'.outcome =
            IF get_player_team(teams, player_id_to_team_name, last'.actor)
               # NoTeam
            THEN "already_on_a_team" ELSE "team_already_exists"
       /\ teams' = teams
       /\ \A n \in Registered : heap'[teams'[n]] = heap[teams[n]]
       /\ player_id_to_team_name' = player_id_to_team_name
    ]_vars

\* a create was refused because the name is registered
C9_Witness ==
  /\ last.cmd = "create" /\ last.outcome = "team_already_exists"
  /\ last.name \in Registered
  /\ TeamNamed(last.name).owner_id # last.actor

\* C10: after a successful create, get_player_team(owner) is a team with the
\* given name, owner and guild, players exactly [owner], and 0 points.
C10_CreateThenLookup ==
  (last.cmd = "create" /\ last.outcome = "team_created") =>
    LET t == get_player_team(teams, player_id_to_team_name, last.actor) IN
    /\ t # NoTeam
    /\ heap[t] = [name |-> last.name, owner_id |-> last.actor,
                  guild_id |-> last.guild, players |-> <<last.actor>>,
                  points |-> 0]

\* a create has succeeded
C10_Witness ==
  /\ last.cmd = "create" /\ last.outcome = "team_created"
  /\ last.guild \in Guilds
  /\ last.name \in Registered
\* C11: a successful invite of p by owner followed by a successful remove of
\* p by owner restores every team's players list and the whole index to what
\* they were before the invite. Stated on the state the remove's success reply
\* leaves, with pre_invite the state the invite began in.
RoundTripDone ==
  /\ pre_invite # NoSnap
  /\ last.cmd = "remove" /\ last.outcome = "team_removed_player"
C11_InviteRemoveRoundTrip ==
  RoundTripDone =>
    /\ PlayersOf(heap, teams) = pre_invite.players
    /\ player_id_to_team_name = pre_invite.idx

\* The team the index resolves for the player who issues the step's command
\* (the code's get_player_team), and what "nothing changes" means: the teams
\* map, every registered team's fields and the index are as before.
ActorTeam == get_player_team(teams, player_id_to_team_name, last'.actor)
ActorHasNoTeam == ActorTeam = NoTeam
ActorIsNonOwner == ActorTeam # NoTeam /\ heap[ActorTeam].owner_id # last'.actor
ActorIsOwner == ActorTeam # NoTeam /\ heap[ActorTeam].owner_id = last'.actor
Untouched ==
  /\ teams' = teams
  /\ DumpTeams(heap', teams') = DumpTeams(heap, teams)
  /\ player_id_to_team_name' = player_id_to_team_name

\* C12: disband issued by a player whose team (get_player_team) is owned by
\* someone else gets the not-team-owner reply, and the teams map, every
\* team's players and owner, and the index are unchanged.
C12_DisbandByNonOwner ==
  [][(Issued /\ last'.cmd = "disband" /\ ActorIsNonOwner) =>
       /\ last'.outcome = "player_not_team_owner"
       /\ Untouched]_vars

\* a member of a registered team who does not own it was refused a disband
C12_Witness ==
  /\ last.cmd = "disband" /\ last.outcome = "player_not_team_owner"
  /\ last.team.name \in Registered
  /\ InList(last.actor, TeamNamed(last.team.name).players)
  /\ TeamNamed(last.team.name).owner_id # last.actor

\* C13: invite, remove and transfer_ownership issued by a player with no team
\* get the not-on-a-team reply, issued by a player whose team is owned by
\* someone else get the not-team-owner reply, and in both cases the teams'
\* players and owners and the index are unchanged.
C13_OnlyOwnerHasAuthority ==
  [][(Issued /\ last'.cmd \in {"invite", "remove", "transfer"}) =>
       /\ ActorHasNoTeam =>
            last'.outcome = "player_not_on_a_team" /\ Untouched
       /\ ActorIsNonOwner =>
            last'.outcome = "player_not_team_owner" /\ Untouched]_vars

\* a member who is not the owner was refused a remove of the team's owner
C13_Witness ==
  /\ last.cmd = "remove" /\ last.outcome = "player_not_team_owner"
  /\ InList(last.actor, last.team.players)
  /\ last.target = last.team.owner_id

\* C14: transfer_ownership by a team's owner to the player who already owns
\* the team gets the already-owner reply, to a player who is not in the
\* team's players the not-on-the-team reply, and both leave the team's owner,
\* its players and the index unchanged.
C14_TransferRefusals ==
  [][(Issued /\ last'.cmd = "transfer" /\ ActorIsOwner) =>
       /\ last'.target = heap[ActorTeam].owner_id =>
            last'.outcome = "player_already_is_owner" /\ Untouched
       /\ ~InList(last'.target, heap[ActorTeam].players) =>
            last'.outcome = "player_not_on_the_team" /\ Untouched]_vars

\* an owner of a team with another member was refused a transfer to themself
C14_Witness ==
  /\ last.cmd = "transfer" /\ last.outcome = "player_already_is_owner"
  /\ last.target = last.actor
  /\ Len(last.team.players) > 1

\* C15: save_data followed by load_data into a fresh registry gives the same
\* team names, for each team the same owner_id, guild_id, players (in order)
\* and points, and the same index with integer keys.
SavedTeams == DumpTeams(heap, teams)
SavedPlayers == DumpPlayers(player_id_to_team_name)
C15_SnapshotRoundTrip ==
  /\ \A n \in Names :
       /\ LoadTeams(SavedTeams)[n] = NoTeam <=> teams[n] = NoTeam
       /\ teams[n] # NoTeam =>
            LoadHeap(SavedTeams)[LoadTeams(SavedTeams)[n]] = heap[teams[n]]
  /\ LoadPlayers(SavedPlayers) = player_id_to_team_name

\* the registry was loaded from a snapshot that holds a team of two whose
\* owner is not the first of its players, and the files hold what it holds
C15_Witness ==
  /\ last.cmd = "load"
  /\ teams_file = SavedTeams /\ players_file = SavedPlayers
  /\ \E n \in Registered :
       /\ Len(TeamNamed(n).players) = 2
       /\ TeamNamed(n).owner_id = TeamNamed(n).players[2]
       /\ player_id_to_team_name[TeamNamed(n).players[1]] = n

\* C16: load_data never makes a snapshot that violates the data-model
\* invariants the registry state: after a load no player is in the players of
\* two teams, every owner is in its team's players, and the index agrees with
\* the players lists.
C16_LoadValidates ==
  last.cmd = "load" =>
    /\ \A p \in Players : Cardinality(TeamsOf(p)) <= 1
    /\ \A n \in Registered : InList(TeamNamed(n).owner_id, TeamNamed(n).players)
    /\ \A p \in Players :
         Indexed(p) <=> TeamsOf(p) = {player_id_to_team_name[p]}

\* C17: a notification that cannot be delivered never fails the command: a
\* disband, remove, transfer or leave never ends with the exception of the
\* delivery, and when it ends with its success reply the two files hold the
\* two maps.
Notifying == {"disband", "remove", "transfer", "leave"}
Succeeded ==
  {"team_disbanded_successfully", "team_removed_player",
   "ownership_transferred_successfully", "player_left_team_successfully"}
C17_FailedNotifyNeverFails ==
  last.cmd \in Notifying =>
    /\ last.outcome # "HTTPException"
    /\ last.outcome \in Succeeded =>
         teams_file = SavedTeams /\ players_file = SavedPlayers

\* C18: the players list of a registered team holds no id twice.
NoDuplicates(list) ==
  \A j, k \in 1..Len(list) : list[j] = list[k] => j = k
C18_NoDuplicatePlayers == \A n \in Registered : NoDuplicates(TeamNamed(n).players)

\* an invite of a player who is already in the team's players was refused
C18_Witness ==
  /\ last.cmd = "invite" /\ last.outcome = "player_already_on_the_team"
  /\ last.team.name \in Registered
  /\ InList(last.target, TeamNamed(last.team.name).players)

\* C19: in every Team class, remove_player called with the current owner's
\* id raises CannotRemoveTeamOwner and leaves players unchanged, remove_player
\* with an id not in players raises PlayerNotOnTheTeam, and no sequence of
\* add_player, remove_player and transfer_ownership calls leaves owner_id out
\* of players. Checked under SpecTeam.
C19_OwnerRemovalUniform ==
  /\ (unit.op = "remove_player" /\ unit.arg = unit.before.owner_id) =>
       /\ unit.raised = "CannotRemoveTeamOwner"
       /\ unit.team.players = unit.before.players
  /\ (unit.op = "remove_player" /\ ~InList(unit.arg, unit.before.players)) =>
       unit.raised = "PlayerNotOnTheTeam"
  /\ unit.impl \in Impls => InList(unit.team.owner_id, unit.team.players)

\* C20: in every step of a command, the owner a registered team has after the
\* step either created the team in this step or was in the players list the
\* team had before the step. (A load builds a new registry from the files and
\* is not a step of a command.)
CreatedNow(n, p) ==
  /\ last'.cmd = "create" /\ last'.outcome = "team_created"
  /\ last'.name = n /\ last'.actor = p
C20_OwnershipThroughMembership ==
  [][last'.cmd # "load" =>
       \A n \in Names :
         teams'[n] # NoTeam =>
           \/ CreatedNow(n, heap'[teams'[n]].owner_id)
           \/ /\ teams[n] # NoTeam
              /\ InList(heap'[teams'[n]].owner_id, heap[teams[n]].players)]_vars

\* a transfer has just made a member other than the creator the owner
C20_Witness ==
  /\ last.cmd = "transfer" /\ last.outcome = "await_notify"
  /\ last.team.name \in Registered
  /\ TeamNamed(last.team.name).owner_id = last.target
  /\ last.target # last.actor

\* every registered team but the one named n is as before
OthersUntouched(n) ==
  \A m \in Names \ {n} :
    DumpTeams(heap', teams')[m] = DumpTeams(heap, teams)[m]

\* C21: a successful transfer_ownership changes only the team's owner_id, to
\* the target: the team's players (content and order), name, guild_id and
\* points, every other team, the registered names and the whole index are
\* unchanged. The change is made by the step that issues the command (it
\* suspends at the new owner's notification); the step that resumes it and
\* replies changes nothing in memory.
C21_TransferFrame ==
  [][last'.cmd = "transfer" =>
       /\ (Issued /\ last'.outcome = "await_notify") =>
            /\ heap'[ActorTeam] =
                 [heap[ActorTeam] EXCEPT !.owner_id = last'.target]
            /\ teams' = teams
            /\ OthersUntouched(heap[ActorTeam].name)
            /\ player_id_to_team_name' = player_id_to_team_name
       /\ ~Issued => Untouched]_vars

\* ownership of a team of two was transferred while another team is
\* registered, and the command has replied
C21_Witness ==
  /\ last.cmd = "transfer"
  /\ last.outcome = "ownership_transferred_successfully"
  /\ \E n, m \in Registered :
       /\ n # m
       /\ TeamNamed(n).owner_id = last.target
       /\ TeamNamed(n).players = <<last.actor, last.target>>

\* C22: when a member who is not the owner leaves, exactly that player is
\* removed from the team's players and from the index; the team stays
\* registered with the same owner and the other members in their order, and
\* no other team and no other index entry changes.
MemberLeaves ==
  /\ Issued /\ last'.cmd = "leave"
  /\ ActorIsNonOwner
  /\ InList(last'.actor, heap[ActorTeam].players)
C22_MemberLeaveFrame ==
  [][MemberLeaves =>
       /\ last'.outcome = "player_left_team_successfully"
       /\ teams' = teams
       /\ heap'[ActorTeam] =
            [heap[ActorTeam] EXCEPT !.players = ListRemove(@, last'.actor)]
       /\ ~InList(last'.actor, heap'[ActorTeam].players)
       /\ OthersUntouched(heap[ActorTeam].name)
       /\ player_id_to_team_name' =
            [player_id_to_team_name EXCEPT ![last'.actor] = NoName]]_vars

\* the middle one of three players has left a team that is still registered
C22_Witness ==
  /\ Left /\ last.target = NoPlayer
  /\ last.team.name \in Registered
  /\ TeamNamed(last.team.name) = last.team
  /\ Len(last.team.players) = 2
  /\ last.team.players[1] = last.team.owner_id
  /\ last.actor \notin {last.team.players[1], last.team.players[2]}

\* C23: once a leave of player p that was suspended at the successor's
\* notification has completed with its reply, whatever ran meanwhile, p is
\* not a key of the index and is neither the owner nor a member of a
\* registered team.
C23_LeaveEffective ==
  (Left /\ last.target # NoPlayer) =>
    /\ ~Indexed(last.actor)
    /\ TeamsOf(last.actor) = {}
    /\ \A n \in Registered : TeamNamed(n).owner_id # last.actor

\* C24: no command ends with an unhandled error of the registry: every index
\* pop of disband, remove and leave finds its key (no KeyError), and the
\* remove_player call of leave never raises PlayerNotOnTheTeam.
C24_NoUnhandledError ==
  /\ last.outcome # "KeyError"
  /\ last.cmd = "leave" => last.outcome # "PlayerNotOnTheTeam"

\* C25: whenever no command is in progress, teams.json and players.json hold
\* the teams map and the index as they are in memory.
C25_SnapshotTracksMemory ==
  Quiet => teams_file = SavedTeams /\ players_file = SavedPlayers

\* C26: create's check-then-register is race-free. A create that succeeds
\* registers a name that was not registered, for a player whose index entry
\* resolved no team, and changes no other team and no other index entry; and
\* of two creates that follow one another with the same name or the same
\* player, the second is refused and changes nothing once the first has
\* succeeded. (team_create has no await between its checks and its
\* registration, so two creates interleave only one after the other.)
CreateSucceeds ==
  Issued /\ last'.cmd = "create" /\ last'.outcome = "team_created"
CreateAfterCreate ==
  /\ last.cmd = "create" /\ last.outcome = "team_created"
  /\ Issued /\ last'.cmd = "create"
  /\ last'.name = last.name \/ last'.actor = last.actor
C26_CreateRaceFree ==
  [][/\ CreateSucceeds =>
          /\ teams[last'.name] = NoTeam
          /\ ActorHasNoTeam
          /\ OthersUntouched(last'.name)
          /\ \A p \in Players \ {last'.actor} :
               player_id_to_team_name'[p] = player_id_to_team_name[p]
     /\ CreateAfterCreate =>
          /\ last'.outcome \in {"already_on_a_team", "team_already_exists"}
          /\ Untouched]_vars

\* the owner of a registered team was refused a create under a free name
C26_Witness ==
  /\ last.cmd = "create" /\ last.outcome = "already_on_a_team"
  /\ last.team.owner_id = last.actor
  /\ last.team.name \in Registered
  /\ last.name \notin Registered

====
